---- MODULE Spec2Model ----
(***************************************************************************)
(* AQIwebhook (src/main.go): one run of main -- fetch the station list     *)
(* with up to three attempts, select the stations with missing data that   *)
(* are not on the ignore list, send the alert to WeChat Work and to        *)
(* DingTalk -- together with the pure functions the run is built from.     *)
(*                                                                         *)
(* Go strings whose content the code inspects (the pollutant fields) are   *)
(* sequences of characters; a character is a one-token string, with        *)
(* "EMDASH" for U+2014 and "QUE", "SHI" for the two characters of the      *)
(* Chinese word for "missing".  Strings the code only compares or passes   *)
(* on (station names, credentials) are TLA+ strings.                       *)
(***************************************************************************)
EXTENDS Integers, Sequences, FiniteSets, TLC

VARIABLES
    cfg,              \* Config: the two credentials, as getConfig returned them
    pc,               \* position of main (or of a direct call of a function)
    i,                \* the retry loop's counter
    data,             \* main's data: the station list of the last fetch
    err,              \* main's err: the error of the last fetch
    attempts,         \* history: the error (or NoError) of each fetchAQIData call
    sleeps,           \* history: the milliseconds of each time.Sleep
    problemStations,  \* main's problemStations
    calls,            \* history: per channel, the calls of its sendAlertTo... function
    posted,           \* history: per channel, the payloads POSTed to its webhook
    sendErr,          \* per channel, what its sendAlertTo... call returned
    out,              \* history: what the run printed or logged
    exit,             \* "running", "ok" (main returned) or "fatal" (log.Fatalf)
    fatalErr,         \* the error log.Fatalf reported
    returned,         \* history: the station list each fetchAQIData call returned
    st,               \* direct call of the station functions: the argument
    missing,          \* direct call of hasMissingData: the result
    factors,          \* direct call of getMissingFactors: the result
    body,             \* direct call of the decoder: the response body
    decoded,          \* direct call of the decoder: the results, one per call
    answer,           \* direct call of a send function: per channel, the webhook's answers
    exchange,         \* direct call of fetchAQIData: the HTTP exchange
    fetched,          \* direct call of fetchAQIData: the result
    text              \* direct call of formatMissingFactors: the result

vars == <<cfg, pc, i, data, err, attempts, sleeps, problemStations, calls, posted,
          sendErr, out, exit, fatalErr, returned, st, missing, factors, body, decoded,
          answer, exchange, fetched, text>>

runVars == <<cfg, pc, i, data, err, attempts, sleeps, problemStations, calls, posted,
             sendErr, out, exit, fatalErr, returned>>

fnVars == <<st, missing, factors, body, decoded, answer, exchange, fetched, text>>

(***************************************************************************)
(* Bounds of the model.                                                    *)
(***************************************************************************)
\* longest station list an upstream response carries
MaxStations == 2
\* most members a wrapper object of a response carries
MaxMembers == 2
\* how often the decoder is called on one body when it is called directly
MaxDecodes == 2

(***************************************************************************)
(* strings.TrimSpace, strings.ToLower, strings.Contains on character       *)
(* sequences.                                                              *)
(***************************************************************************)
IsSpace(c) == c \in {" ", "TAB"}

RECURSIVE TrimLeft(_)
TrimLeft(s) ==
    IF s # <<>> /\ IsSpace(Head(s)) THEN TrimLeft(Tail(s)) ELSE s

RECURSIVE TrimRight(_)
TrimRight(s) ==
    IF s # <<>> /\ IsSpace(s[Len(s)]) THEN TrimRight(SubSeq(s, 1, Len(s) - 1)) ELSE s

TrimSpace(s) == TrimRight(TrimLeft(s))

LowerChar(c) ==
    CASE c = "N" -> "n"
      [] c = "A" -> "a"
      [] c = "U" -> "u"
      [] c = "L" -> "l"
      [] OTHER -> c

ToLower(s) == [k \in 1..Len(s) |-> LowerChar(s[k])]

Contains(s, sub) ==
    \E k \in 1..(Len(s) - Len(sub) + 1) : SubSeq(s, k, k + Len(sub) - 1) = sub

(***************************************************************************)
(* Missing-value detection.                                                *)
(***************************************************************************)
isMissingValue(s0) ==
    LET s == TrimSpace(s0)
        l == ToLower(s)
    IN  \/ s = <<>>
        \/ l = <<"-">>
        \/ l = <<"EMDASH">>
        \/ l = <<"n", "a">>
        \/ l = <<"n", "/", "a">>
        \/ l = <<"n", "u", "l", "l">>
        \/ Contains(s, <<"EMDASH">>)
        \/ Contains(s, <<"QUE", "SHI">>)

hasMissingData_six(s) ==
    \/ isMissingValue(s.PM25)
    \/ isMissingValue(s.PM10)
    \/ isMissingValue(s.O3)
    \/ isMissingValue(s.NO2)
    \/ isMissingValue(s.SO2)
    \/ isMissingValue(s.CO)

hasMissingData(s) ==
    \/ isMissingValue(s.AQI)
    \/ isMissingValue(s.PM25)
    \/ isMissingValue(s.PM10)
    \/ isMissingValue(s.O3)
    \/ isMissingValue(s.NO2)
    \/ isMissingValue(s.SO2)
    \/ isMissingValue(s.CO)

getMissingFactors_noAQI(s) ==
    (IF isMissingValue(s.PM25) THEN <<"PM2.5">> ELSE <<>>)
    \o (IF isMissingValue(s.PM10) THEN <<"PM10">> ELSE <<>>)
    \o (IF isMissingValue(s.O3) THEN <<"O3">> ELSE <<>>)
    \o (IF isMissingValue(s.NO2) THEN <<"NO2">> ELSE <<>>)
    \o (IF isMissingValue(s.SO2) THEN <<"SO2">> ELSE <<>>)
    \o (IF isMissingValue(s.CO) THEN <<"CO">> ELSE <<>>)

getMissingFactors(s) ==
    (IF isMissingValue(s.AQI) THEN <<"AQI">> ELSE <<>>)
    \o (IF isMissingValue(s.PM25) THEN <<"PM2.5">> ELSE <<>>)
    \o (IF isMissingValue(s.PM10) THEN <<"PM10">> ELSE <<>>)
    \o (IF isMissingValue(s.O3) THEN <<"O3">> ELSE <<>>)
    \o (IF isMissingValue(s.NO2) THEN <<"NO2">> ELSE <<>>)
    \o (IF isMissingValue(s.SO2) THEN <<"SO2">> ELSE <<>>)
    \o (IF isMissingValue(s.CO) THEN <<"CO">> ELSE <<>>)

\* strings.Join(factors, sep) as the joined items; the none token when empty
NoneToken == <<"NONE">>

formatMissingFactors(fs) == IF Len(fs) = 0 THEN NoneToken ELSE fs

(***************************************************************************)
(* Station records (AQIData) and the upstream responses the run is tried   *)
(* on.                                                                     *)
(***************************************************************************)
Station(name, aqi, pm25, pm10, o3, no2, so2, co) ==
    [PositionName |-> name, AQI |-> aqi, PM25 |-> pm25, PM10 |-> pm10,
     O3 |-> o3, NO2 |-> no2, SO2 |-> so2, CO |-> co]

\* the one name of ignorePositionNames (a park of Guangzhou), transliterated
ignorePositionNames == {"MaofengshanForestPark"}

isIgnored_never(name) == FALSE

isIgnored(name) == name \in ignorePositionNames

Num == <<"3", "5">>

NoStation == Station("", <<>>, <<>>, <<>>, <<>>, <<>>, <<>>, <<>>)

\* a station with every field present; one with the AQI alone missing; one with
\* two pollutants missing; one on the ignore list with a pollutant missing
StationPool ==
    { Station("S1", Num, Num, Num, Num, Num, Num, Num),
      Station("S2", <<"EMDASH">>, Num, Num, Num, Num, Num, Num),
      Station("S3", Num, <<>>, Num, Num, Num, Num, <<" ", "N", "A">>),
      Station("MaofengshanForestPark", Num, Num, Num, <<"-">>, Num, Num, Num) }

SeqsUpTo(S, n) == UNION { [1..k -> S] : k \in 0..n }

StationLists == SeqsUpTo(StationPool, MaxStations)

\* field values of the stations the station functions are called on directly
FieldSamples == { Num, <<>>, <<"3", "EMDASH">> }

\* further field values: placeholders in other spellings, and "--" and "0", which
\* isMissingValue takes for present
MoreFieldSamples ==
    { <<"-">>, <<" ", "-", " ">>, <<"-", "-">>, <<"N", "A">>, <<"n", "/", "a">>,
      <<"N", "u", "L", "l">>, <<"TAB">>, <<"QUE", "SHI">>, <<"3", "QUE", "SHI">>,
      <<"QUE">>, <<"0">> }

FieldNames == {"AQI", "PM25", "PM10", "O3", "NO2", "SO2", "CO"}

\* every combination of the field samples, and every station with one field
\* holding one of the further samples and the others a number
AllStations ==
    { Station("S1", a, b, c, d, e, f, g) :
        a \in FieldSamples, b \in FieldSamples, c \in FieldSamples, d \in FieldSamples,
        e \in FieldSamples, f \in FieldSamples, g \in FieldSamples }
    \cup { [Station("S1", Num, Num, Num, Num, Num, Num, Num) EXCEPT ![f] = v] :
             f \in FieldNames, v \in MoreFieldSamples }

(***************************************************************************)
(* JSON values as the decoder sees them: a value that json.Unmarshal       *)
(* accepts as []AQIData ("array", and "null", which it accepts as the nil  *)
(* slice), an object with members, or anything else.                       *)
(***************************************************************************)
NoMembers == [k \in {} |-> 0]

JArray(l) == [kind |-> "array", arr |-> l, members |-> NoMembers]

JNull == [kind |-> "null", arr |-> <<>>, members |-> NoMembers]

JOther == [kind |-> "other", arr |-> <<>>, members |-> NoMembers]

JObject(m) == [kind |-> "object", arr |-> <<>>, members |-> m]

\* the keys of the wrapper objects tried: two the decoder knows, two it does not
KeyPool == {"Data", "rows", "list", "items"}

MemberValues ==
    { JArray(<<s>>) : s \in {x \in StationPool : x.PositionName \in {"S1", "S2"}} }
    \cup {JNull, JOther}

Bodies ==
    { JArray(l) : l \in StationLists }
    \cup {JNull, JOther}
    \cup { JObject(m) :
             m \in UNION { [K -> MemberValues] :
                             K \in {X \in SUBSET KeyPool : Cardinality(X) <= MaxMembers} } }

\* an HTTP exchange: the transport failed, or a status and a body arrived and the
\* body could be read or not
Statuses == {200, 204, 500}

Responses ==
    {[net |-> "fail", status |-> 0, body |-> JOther]}
    \cup {[net |-> "ok", status |-> s, body |-> JOther] : s \in Statuses \ {200}}
    \cup {[net |-> "readfail", status |-> 200, body |-> JOther]}
    \cup {[net |-> "ok", status |-> 200, body |-> b] : b \in Bodies}

(***************************************************************************)
(* Errors.                                                                 *)
(***************************************************************************)
Err(kind, code) == [kind |-> kind, code |-> code]

NoError == Err("nil", 0)

(***************************************************************************)
(* fetchAQIData.  The order in which `range obj` visits the members of a   *)
(* Go map is not specified and differs from one range statement to the     *)
(* next: it is the parameter order, any enumeration of the keys.           *)
(***************************************************************************)
Orders(S) ==
    { f \in [1..Cardinality(S) -> S] : \A a, b \in DOMAIN f : f[a] = f[b] => a = b }

\* json.Unmarshal(v, &arr)
Unmarshal(v) ==
    [ok |-> v.kind \in {"array", "null"},
     arr |-> IF v.kind = "array" THEN v.arr ELSE <<>>]

WrapperKeys == <<"Data", "data", "Rows", "rows", "Table", "table", "records", "Records">>

\* the first of the keys ks, in order, that obj holds with a value that decodes
RECURSIVE FirstDecoding(_, _)
FirstDecoding(obj, ks) ==
    IF ks = <<>> THEN [ok |-> FALSE, arr |-> <<>>]
    ELSE IF Head(ks) \in DOMAIN obj /\ Unmarshal(obj[Head(ks)]).ok
         THEN Unmarshal(obj[Head(ks)])
         ELSE FirstDecoding(obj, Tail(ks))

DecodeBody(raw, order) ==
    IF Unmarshal(raw).ok THEN [arr |-> Unmarshal(raw).arr, err |-> NoError]
    ELSE IF raw.kind = "object" /\ FirstDecoding(raw.members, WrapperKeys).ok
         THEN [arr |-> FirstDecoding(raw.members, WrapperKeys).arr, err |-> NoError]
    ELSE IF raw.kind = "object" /\ FirstDecoding(raw.members, order).ok
         THEN [arr |-> FirstDecoding(raw.members, order).arr, err |-> NoError]
    ELSE [arr |-> <<>>, err |-> Err("decode", 0)]

isSuccessStatus_2xx(status) == status \in 200..299

\* resp.StatusCode != http.StatusOK is the status failure
isSuccessStatus(status) == status = 200

fetchAQIData(resp, order) ==
    IF resp.net = "fail" THEN [arr |-> <<>>, err |-> Err("transport", 0)]
    ELSE IF ~isSuccessStatus(resp.status)
         THEN [arr |-> <<>>, err |-> Err("http", resp.status)]
    ELSE IF resp.net = "readfail" THEN [arr |-> <<>>, err |-> Err("read", 0)]
    ELSE DecodeBody(resp.body, order)

(***************************************************************************)
(* The problem list: main's selection loop.                                *)
(***************************************************************************)
RECURSIVE selectProblemStations(_)
selectProblemStations(l) ==
    IF l = <<>> THEN <<>>
    ELSE IF isIgnored(Head(l).PositionName) THEN selectProblemStations(Tail(l))
    ELSE IF hasMissingData(Head(l)) THEN <<Head(l)>> \o selectProblemStations(Tail(l))
    ELSE selectProblemStations(Tail(l))

(***************************************************************************)
(* The two webhook channels.                                               *)
(***************************************************************************)
Channels == {"wechat", "dingtalk"}

\* a credential is the empty string (channel not configured) or a key
Credentials == {"", "KEY"}

\* the body of a webhook's answer: whether it parses as a JSON object, whether
\* the object holds errcode, whether errcode is a JSON number, and its value
WebhookBody(isObject, hasErrcode, isNumber, errcode) ==
    [isObject |-> isObject, hasErrcode |-> hasErrcode, isNumber |-> isNumber,
     errcode |-> errcode]

WebhookBodies ==
    { WebhookBody(FALSE, FALSE, FALSE, 0),
      WebhookBody(TRUE, FALSE, FALSE, 0),
      WebhookBody(TRUE, TRUE, TRUE, 0),
      WebhookBody(TRUE, TRUE, TRUE, 93000),
      WebhookBody(TRUE, TRUE, FALSE, 93000) }

WebhookResponses ==
    {[net |-> "fail", status |-> 0, body |-> WebhookBody(FALSE, FALSE, FALSE, 0)]}
    \cup {[net |-> "ok", status |-> 500, body |-> WebhookBody(FALSE, FALSE, FALSE, 0)]}
    \cup {[net |-> "ok", status |-> 200, body |-> b] : b \in WebhookBodies}

\* what both messages list: each station's name and its missing factors
renderStations(ps) ==
    [k \in 1..Len(ps) |->
        <<ps[k].PositionName, formatMissingFactors(getMissingFactors(ps[k]))>>]

wechatSkips_lenOnly(ps, key) == Len(ps) = 0

wechatSkips(ps, key) == Len(ps) = 0 \/ key = ""

wechatResponseError_anyErrcode(resp) ==
    IF resp.net = "fail" THEN Err("transport", 0)
    ELSE IF resp.status # 200 THEN Err("http", resp.status)
    ELSE IF resp.body.isObject /\ resp.body.hasErrcode /\ resp.body.errcode # 0
         THEN Err("app", resp.body.errcode)
    ELSE NoError

wechatResponseError(resp) ==
    IF resp.net = "fail" THEN Err("transport", 0)
    ELSE IF resp.status # 200 THEN Err("http", resp.status)
    ELSE IF /\ resp.body.isObject
            /\ resp.body.hasErrcode
            /\ resp.body.isNumber
            /\ resp.body.errcode # 0
         THEN Err("app", resp.body.errcode)
    ELSE NoError

\* post: the payloads POSTed by the call (none or one); err: what it returns
sendAlertToWechatWork(ps, key, resp) ==
    IF wechatSkips(ps, key) THEN [post |-> <<>>, err |-> NoError]
    ELSE [post |-> <<[msgtype |-> "markdown", key |-> key, title |-> "content",
                      stations |-> renderStations(ps)]>>,
          err |-> wechatResponseError(resp)]

dingTalkSkips(ps, accessToken) == Len(ps) = 0 \/ accessToken = ""

dingTalkResponseError(resp) ==
    IF resp.net = "fail" THEN Err("transport", 0)
    ELSE IF resp.status # 200 THEN Err("http", resp.status)
    ELSE IF /\ resp.body.isObject
            /\ resp.body.hasErrcode
            /\ resp.body.isNumber
            /\ resp.body.errcode # 0
         THEN Err("app", resp.body.errcode)
    ELSE NoError

sendAlertToDingTalk(ps, accessToken, resp) ==
    IF dingTalkSkips(ps, accessToken) THEN [post |-> <<>>, err |-> NoError]
    ELSE [post |-> <<[msgtype |-> "markdown", key |-> accessToken, title |-> "title",
                      stations |-> renderStations(ps)]>>,
          err |-> dingTalkResponseError(resp)]

(***************************************************************************)
(* main, step by step.                                                     *)
(***************************************************************************)
MaxAttempts == 3

loopCond_four(n) == n < MaxAttempts + 1

\* for i := 0; i < 3; i++
loopCond(n) == n < MaxAttempts

assignErr_keepFirst(old, new) == IF old # NoError THEN old ELSE new

\* data, err = fetchAQIData(ctx, client): err is overwritten
assignErr(old, new) == new

breaksLoop_never(e) == FALSE

breaksLoop_onDecodeError(e) == e = NoError \/ e.kind = "decode"

\* if err == nil { break }
breaksLoop(e) == e = NoError

\* wait := time.Duration(500*(1<<i)) * time.Millisecond
retryWait(n) == 500 * (2 ^ n)

isFatal_never(e) == FALSE

\* if err != nil { log.Fatalf(...) }
isFatal(e) == e # NoError

returnsEarly_never(ps) == FALSE

\* if len(problemStations) == 0 { ...; return }
returnsEarly(ps) == Len(ps) = 0

afterWechat_stopOnError(e) == IF e # NoError THEN "summary" ELSE "dingtalk"

\* a failed WeChat Work dispatch is logged and main goes on to DingTalk
afterWechat(e) == "dingtalk"

Say(msg, n) == Append(out, <<msg, n>>)

\* the variables of the direct calls of the send functions, of fetchAQIData and
\* of formatMissingFactors, while none of them is called
FnIdle ==
    /\ answer = [c \in Channels |-> <<>>]
    /\ exchange = [net |-> "fail", status |-> 0, body |-> JOther]
    /\ fetched = <<>>
    /\ text = <<>>

Init ==
    /\ cfg \in [Channels -> Credentials]
    /\ pc = "start"
    /\ i = 0
    /\ data = <<>>
    /\ err = NoError
    /\ attempts = <<>>
    /\ sleeps = <<>>
    /\ problemStations = <<>>
    /\ calls = [c \in Channels |-> 0]
    /\ posted = [c \in Channels |-> <<>>]
    /\ sendErr = [c \in Channels |-> NoError]
    /\ out = <<>>
    /\ exit = "running"
    /\ fatalErr = NoError
    /\ returned = <<>>
    /\ st = NoStation
    /\ missing = <<>>
    /\ factors = <<>>
    /\ body = JOther
    /\ decoded = <<>>
    /\ FnIdle

\* lines 472-484: the warning when no webhook is configured, the loop's entry
Start ==
    /\ pc = "start"
    /\ out' = IF cfg["wechat"] = "" /\ cfg["dingtalk"] = ""
              THEN Say("warn_no_webhook", 0) ELSE out
    /\ pc' = IF loopCond(i) THEN "fetch" ELSE "check"
    /\ UNCHANGED <<cfg, returned, i, data, err, attempts, sleeps, problemStations, calls, posted,
                   sendErr, exit, fatalErr>>
    /\ UNCHANGED fnVars

\* lines 485-488: one fetch attempt
FetchAttempt ==
    /\ pc = "fetch"
    /\ \E resp \in Responses :
         \E order \in Orders(DOMAIN resp.body.members) :
            LET r == fetchAQIData(resp, order)
                e == assignErr(err, r.err)
            IN  /\ data' = r.arr
                /\ err' = e
                /\ attempts' = Append(attempts, r.err)
                /\ returned' = Append(returned, r.arr)
                /\ pc' = IF breaksLoop(e) THEN "check" ELSE "sleep"
    /\ UNCHANGED <<cfg, i, sleeps, problemStations, calls, posted, sendErr, out, exit,
                   fatalErr>>
    /\ UNCHANGED fnVars

\* lines 489-490 and the loop's i++ and test
Sleep ==
    /\ pc = "sleep"
    /\ sleeps' = Append(sleeps, retryWait(i))
    /\ i' = i + 1
    /\ pc' = IF loopCond(i + 1) THEN "fetch" ELSE "check"
    /\ UNCHANGED <<cfg, returned, data, err, attempts, problemStations, calls, posted, sendErr,
                   out, exit, fatalErr>>
    /\ UNCHANGED fnVars

\* lines 492-494
CheckFetchError ==
    /\ pc = "check"
    /\ IF isFatal(err)
       THEN /\ fatalErr' = err
            /\ out' = Say("fatal", 0)
            /\ exit' = "fatal"
            /\ pc' = "done"
       ELSE /\ pc' = "select"
            /\ UNCHANGED <<fatalErr, out, exit>>
    /\ UNCHANGED <<cfg, returned, i, data, err, attempts, sleeps, problemStations, calls, posted,
                   sendErr>>
    /\ UNCHANGED fnVars

\* lines 496-511
SelectProblems ==
    /\ pc = "select"
    /\ problemStations' = selectProblemStations(data)
    /\ IF returnsEarly(problemStations')
       THEN /\ out' = Say("all_normal", 0)
            /\ exit' = "ok"
            /\ pc' = "done"
       ELSE /\ pc' = "wechat"
            /\ UNCHANGED <<out, exit>>
    /\ UNCHANGED <<cfg, returned, i, data, err, attempts, sleeps, calls, posted, sendErr, fatalErr>>
    /\ UNCHANGED fnVars

\* lines 513-520
DispatchWechat ==
    /\ pc = "wechat"
    /\ IF cfg["wechat"] # ""
       THEN \E resp \in WebhookResponses :
              LET r == sendAlertToWechatWork(problemStations, cfg["wechat"], resp)
              IN  /\ calls' = [calls EXCEPT !["wechat"] = @ + 1]
                  /\ posted' = [posted EXCEPT !["wechat"] = @ \o r.post]
                  /\ sendErr' = [sendErr EXCEPT !["wechat"] = r.err]
                  /\ out' = IF r.err # NoError THEN Say("wechat_failed", 0)
                                               ELSE Say("wechat_sent", 0)
                  /\ pc' = afterWechat(r.err)
       ELSE /\ pc' = "dingtalk"
            /\ UNCHANGED <<calls, posted, sendErr, out>>
    /\ UNCHANGED <<cfg, returned, i, data, err, attempts, sleeps, problemStations, exit, fatalErr>>
    /\ UNCHANGED fnVars

\* lines 522-529
DispatchDingTalk ==
    /\ pc = "dingtalk"
    /\ IF cfg["dingtalk"] # ""
       THEN \E resp \in WebhookResponses :
              LET r == sendAlertToDingTalk(problemStations, cfg["dingtalk"], resp)
              IN  /\ calls' = [calls EXCEPT !["dingtalk"] = @ + 1]
                  /\ posted' = [posted EXCEPT !["dingtalk"] = @ \o r.post]
                  /\ sendErr' = [sendErr EXCEPT !["dingtalk"] = r.err]
                  /\ out' = IF r.err # NoError THEN Say("dingtalk_failed", 0)
                                               ELSE Say("dingtalk_sent", 0)
       ELSE UNCHANGED <<calls, posted, sendErr, out>>
    /\ pc' = "summary"
    /\ UNCHANGED <<cfg, returned, i, data, err, attempts, sleeps, problemStations, exit, fatalErr>>
    /\ UNCHANGED fnVars

\* line 531 and main's return
Summary ==
    /\ pc = "summary"
    /\ out' = Say("summary", Len(problemStations))
    /\ exit' = "ok"
    /\ pc' = "done"
    /\ UNCHANGED <<cfg, returned, i, data, err, attempts, sleeps, problemStations, calls, posted,
                   sendErr, fatalErr>>
    /\ UNCHANGED fnVars

Next ==
    \/ Start
    \/ FetchAttempt
    \/ Sleep
    \/ CheckFetchError
    \/ SelectProblems
    \/ DispatchWechat
    \/ DispatchDingTalk
    \/ Summary

Spec == Init /\ [][Next]_vars

(***************************************************************************)
(* Direct calls of the functions, on arguments main may or may not pass.   *)
(***************************************************************************)
\* the run's variables while a function is called directly
RunIdle ==
    /\ pc = "direct"
    /\ i = 0
    /\ data = <<>>
    /\ err = NoError
    /\ attempts = <<>>
    /\ sleeps = <<>>
    /\ calls = [c \in Channels |-> 0]
    /\ posted = [c \in Channels |-> <<>>]
    /\ sendErr = [c \in Channels |-> NoError]
    /\ out = <<>>
    /\ exit = "running"
    /\ fatalErr = NoError
    /\ returned = <<>>

\* sendAlertToWechatWork and sendAlertToDingTalk, on any list and credential
InitSend ==
    /\ RunIdle
    /\ cfg \in [Channels -> Credentials]
    /\ problemStations \in StationLists
    /\ st = NoStation
    /\ missing = <<>>
    /\ factors = <<>>
    /\ body = JOther
    /\ decoded = <<>>
    /\ FnIdle

CallSendWechat ==
    /\ pc = "direct"
    /\ calls["wechat"] = 0
    /\ \E w \in WebhookResponses :
         LET r == sendAlertToWechatWork(problemStations, cfg["wechat"], w)
         IN  /\ calls' = [calls EXCEPT !["wechat"] = @ + 1]
             /\ posted' = [posted EXCEPT !["wechat"] = @ \o r.post]
             /\ sendErr' = [sendErr EXCEPT !["wechat"] = r.err]
             /\ answer' = IF r.post = <<>> THEN answer
                          ELSE [answer EXCEPT !["wechat"] = Append(@, w)]
    /\ UNCHANGED <<cfg, returned, pc, i, data, err, attempts, sleeps, problemStations, out,
                   exit, fatalErr>>
    /\ UNCHANGED <<st, missing, factors, body, decoded, exchange, fetched, text>>

CallSendDingTalk ==
    /\ pc = "direct"
    /\ calls["dingtalk"] = 0
    /\ \E w \in WebhookResponses :
         LET r == sendAlertToDingTalk(problemStations, cfg["dingtalk"], w)
         IN  /\ calls' = [calls EXCEPT !["dingtalk"] = @ + 1]
             /\ posted' = [posted EXCEPT !["dingtalk"] = @ \o r.post]
             /\ sendErr' = [sendErr EXCEPT !["dingtalk"] = r.err]
             /\ answer' = IF r.post = <<>> THEN answer
                          ELSE [answer EXCEPT !["dingtalk"] = Append(@, w)]
    /\ UNCHANGED <<cfg, returned, pc, i, data, err, attempts, sleeps, problemStations, out,
                   exit, fatalErr>>
    /\ UNCHANGED <<st, missing, factors, body, decoded, exchange, fetched, text>>

\* the run, and the direct calls of the two send functions
InitCalls == Init \/ InitSend

NextCalls ==
    \/ Next
    \/ CallSendWechat
    \/ CallSendDingTalk

SpecCalls == InitCalls /\ [][NextCalls]_vars

\* hasMissingData and getMissingFactors, on any station
InitStation ==
    /\ RunIdle
    /\ cfg = [c \in Channels |-> ""]
    /\ problemStations = <<>>
    /\ st \in AllStations
    /\ missing = <<>>
    /\ factors = <<>>
    /\ body = JOther
    /\ decoded = <<>>
    /\ FnIdle

CallHasMissingData ==
    /\ missing = <<>>
    /\ missing' = <<hasMissingData(st)>>
    /\ UNCHANGED <<answer, exchange, fetched, text, st, factors, body, decoded>>
    /\ UNCHANGED runVars

CallGetMissingFactors ==
    /\ factors = <<>>
    /\ factors' = <<getMissingFactors(st)>>
    /\ UNCHANGED <<answer, exchange, fetched, text, st, missing, body, decoded>>
    /\ UNCHANGED runVars

\* formatMissingFactors, on the list getMissingFactors returned
CallFormatMissingFactors ==
    /\ factors # <<>>
    /\ text = <<>>
    /\ text' = <<formatMissingFactors(factors[1])>>
    /\ UNCHANGED <<st, missing, factors, body, decoded, answer, exchange, fetched>>
    /\ UNCHANGED runVars

NextStation ==
    \/ CallHasMissingData
    \/ CallGetMissingFactors
    \/ CallFormatMissingFactors

SpecStation == InitStation /\ [][NextStation]_vars

\* the decoder of fetchAQIData, called more than once on one and the same body
InitDecode ==
    /\ RunIdle
    /\ cfg = [c \in Channels |-> ""]
    /\ problemStations = <<>>
    /\ st = NoStation
    /\ missing = <<>>
    /\ factors = <<>>
    /\ body \in Bodies
    /\ decoded = <<>>
    /\ FnIdle

CallDecode ==
    /\ Len(decoded) < MaxDecodes
    /\ \E order \in Orders(DOMAIN body.members) :
         decoded' = Append(decoded, DecodeBody(body, order))
    /\ UNCHANGED <<answer, exchange, fetched, text, st, missing, factors, body>>
    /\ UNCHANGED runVars

NextDecode == CallDecode

SpecDecode == InitDecode /\ [][NextDecode]_vars

\* fetchAQIData, on any exchange: any of these statuses with any body
FetchStatuses == {200, 201, 204, 404, 500}

FetchExchanges ==
    {[net |-> "fail", status |-> 0, body |-> JOther]}
    \cup [net : {"ok", "readfail"}, status : FetchStatuses, body : Bodies]

InitFetch ==
    /\ RunIdle
    /\ cfg = [c \in Channels |-> ""]
    /\ problemStations = <<>>
    /\ st = NoStation
    /\ missing = <<>>
    /\ factors = <<>>
    /\ body = JOther
    /\ decoded = <<>>
    /\ answer = [c \in Channels |-> <<>>]
    /\ exchange \in FetchExchanges
    /\ fetched = <<>>
    /\ text = <<>>

CallFetch ==
    /\ fetched = <<>>
    /\ \E order \in Orders(DOMAIN exchange.body.members) :
         fetched' = <<fetchAQIData(exchange, order)>>
    /\ UNCHANGED <<st, missing, factors, body, decoded, answer, exchange, text>>
    /\ UNCHANGED runVars

NextFetch == CallFetch

SpecFetch == InitFetch /\ [][NextFetch]_vars

(***************************************************************************)
(* Properties.                                                             *)
(***************************************************************************)
\* the retry loop is over
LoopOver == pc \in {"check", "select", "wechat", "dingtalk", "summary", "done"}

\* the last fetch attempt failed
LastAttemptFailed == Len(attempts) > 0 /\ attempts[Len(attempts)] # NoError

\* the selection loop has run
Selected == pc \in {"wechat", "dingtalk", "summary"} \/ (pc = "done" /\ exit = "ok")

Printed(msg) == \E k \in 1..Len(out) : out[k][1] = msg

\* C1: when the run is over and its fetch attempts all failed, it made exactly 3
\* attempts, ended in log.Fatalf, and the error reported is the third attempt's.
C1_ThreeAttemptsThirdError ==
    (pc = "done" /\ LastAttemptFailed) =>
        /\ Len(attempts) = 3
        /\ \A k \in 1..3 : attempts[k] # NoError
        /\ exit = "fatal"
        /\ fatalErr = attempts[3]

\* C1 witness: a fatal run whose third error differs from its first and second
C1_Witness ==
    /\ exit = "fatal"
    /\ Len(attempts) = 3
    /\ attempts[3].kind = "http"
    /\ attempts[1].kind = "transport"
    /\ attempts[2] = Err("http", 204)
    /\ attempts[3] = Err("http", 500)

\* C2: with a non-empty problem list and both channels configured, once the WeChat
\* Work step is over the DingTalk dispatch follows whatever the first returned
\* (each channel is called and POSTed to once by the time of the summary), no
\* dispatch outcome makes the run fatal, the run cannot stop before the summary,
\* and it ends printing the count of the problem list.
C2_ChannelsIndependent ==
    /\ (pc \in {"summary", "done"} /\ problemStations # <<>>
            /\ cfg["wechat"] # "" /\ cfg["dingtalk"] # "") =>
          /\ calls["wechat"] = 1 /\ Len(posted["wechat"]) = 1
          /\ calls["dingtalk"] = 1 /\ Len(posted["dingtalk"]) = 1
    /\ problemStations # <<>> => exit # "fatal"
    /\ pc = "wechat" => ENABLED DispatchWechat
    /\ pc = "dingtalk" => ENABLED DispatchDingTalk
    /\ pc = "summary" => ENABLED Summary
    /\ (pc = "done" /\ problemStations # <<>>) =>
          /\ exit = "ok"
          /\ out[Len(out)] = <<"summary", Len(problemStations)>>

\* C2 witness: both dispatches failed, the second after the first, and the run
\* ended with the summary
C2_Witness ==
    /\ pc = "done"
    /\ exit = "ok"
    /\ sendErr["wechat"].kind = "transport"
    /\ sendErr["dingtalk"].kind = "app"
    /\ Len(posted["dingtalk"]) = 1
    /\ Printed("summary")

\* C3: once the selection has run and left the problem list empty, the run is over
\* as a success, and no send function was called and nothing was POSTed.
C3_EmptyListNoDispatch ==
    (Selected /\ problemStations = <<>>) =>
        /\ pc = "done"
        /\ exit = "ok"
        /\ \A c \in Channels : calls[c] = 0 /\ posted[c] = <<>>
        /\ ~Printed("summary")

\* C3 witness: stations were fetched, none is a problem, both channels configured
C3_Witness ==
    /\ pc = "done"
    /\ exit = "ok"
    /\ Len(data) = 2
    /\ problemStations = <<>>
    /\ cfg["wechat"] # ""
    /\ cfg["dingtalk"] # ""

\* C4: nothing is ever POSTed to a channel whose credential is empty; a send
\* function called with an empty credential returns nil; and a run with both
\* credentials empty makes its fetch attempts and, the fetch having succeeded,
\* selects the problem stations and ends as a success.
C4_EmptyCredentialNoPost ==
    /\ \A c \in Channels : cfg[c] = "" => posted[c] = <<>>
    /\ \A c \in Channels : (cfg[c] = "" /\ calls[c] > 0) => sendErr[c] = NoError
    /\ (pc = "done" /\ cfg["wechat"] = "" /\ cfg["dingtalk"] = "") =>
          /\ Len(attempts) >= 1
          /\ ~LastAttemptFailed =>
                /\ exit = "ok"
                /\ problemStations = selectProblemStations(data)
                /\ Printed("all_normal") \/ Printed("summary")

\* C4 witness: sendAlertToWechatWork was called on a non-empty list with the empty
\* credential
C4_Witness ==
    /\ pc = "direct"
    /\ cfg["wechat"] = ""
    /\ calls["wechat"] = 1
    /\ problemStations # <<>>

\* C5: at most 3 fetch attempts, at most 2 POSTs, at most one call and one POST per
\* channel and none to a channel that is not configured.
C5_AtMostThreeFetchesTwoPosts ==
    /\ Len(attempts) <= 3
    /\ Len(posted["wechat"]) + Len(posted["dingtalk"]) <= 2
    /\ \A c \in Channels :
          /\ calls[c] <= 1
          /\ Len(posted[c]) <= 1
          /\ cfg[c] = "" => Len(posted[c]) = 0

\* C5 witness: three fetch attempts and two POSTs, both answered with an error
C5_Witness ==
    /\ Len(attempts) = 3
    /\ Len(posted["wechat"]) = 1
    /\ Len(posted["dingtalk"]) = 1
    /\ sendErr["wechat"] # NoError
    /\ sendErr["dingtalk"] # NoError

\* C6: once the loop is over with its last attempt failed, the run only ends in
\* log.Fatalf: no selection, no selection output, no call, no POST; and whenever
\* something was POSTed, the last fetch attempt succeeded.
C6_FailedFetchIsFatal ==
    /\ (LoopOver /\ LastAttemptFailed) =>
          /\ pc \in {"check", "done"}
          /\ pc = "done" => exit = "fatal"
          /\ problemStations = <<>>
          /\ ~Printed("all_normal") /\ ~Printed("summary")
          /\ \A c \in Channels : calls[c] = 0 /\ posted[c] = <<>>
    /\ \A c \in Channels :
          posted[c] # <<>> => (Len(attempts) > 0 /\ attempts[Len(attempts)] = NoError)

\* C6 witness: a fatal run with both channels configured
C6_Witness ==
    /\ exit = "fatal"
    /\ cfg["wechat"] # ""
    /\ cfg["dingtalk"] # ""
    /\ Len(attempts) = 3

\* C7 as claimed: a decode error is never followed by another fetch attempt.
C7_DecodeErrorNotRetried ==
    \A k \in 1..Len(attempts) : attempts[k].kind = "decode" => k = Len(attempts)

\* C7 as amended: a decode error is retried like any other fetch error; once the
\* loop is over, every failed attempt before the third, decode errors included,
\* was followed by another attempt.
C7_EveryErrorRetried ==
    LoopOver =>
        \A k \in 1..Len(attempts) :
            (attempts[k] # NoError /\ k < 3) => Len(attempts) > k

\* C7 witness: a decode error at the first attempt, and a second attempt
C7_Witness ==
    /\ LoopOver
    /\ Len(attempts) = 2
    /\ attempts[1].kind = "decode"
    /\ attempts[2] = NoError

\* the indices of the fetched records that are not ignored and have missing data
ProblemIndices ==
    { j \in 1..Len(data) :
        data[j].PositionName \notin ignorePositionNames /\ hasMissingData(data[j]) }

\* C8: the problem list is the fetched list restricted to the records that are not
\* in the ignore set and have missing data, in upstream order: its k-th element
\* is the record at the k-th smallest such index; no ignored name appears in it.
C8_ProblemListIsSubsequence ==
    Selected =>
        /\ Len(problemStations) = Cardinality(ProblemIndices)
        /\ \A j \in ProblemIndices :
              problemStations[Cardinality({m \in ProblemIndices : m <= j})] = data[j]
        /\ \A k \in 1..Len(problemStations) :
              problemStations[k].PositionName \notin ignorePositionNames

\* C8 witness: an ignored station with missing data comes first and is left out
C8_Witness ==
    /\ Selected
    /\ Len(data) = 2
    /\ data[1].PositionName \in ignorePositionNames
    /\ hasMissingData(data[1])
    /\ Len(problemStations) = 1
    /\ problemStations[1] = data[2]

PollutantFields == {"O3", "NO2", "PM10", "PM25", "SO2", "CO"}

\* C9 as claimed: hasMissingData is true iff one of the six pollutant fields is
\* missing.
C9_SixPollutantFields ==
    missing # <<>> =>
        (missing[1] <=> \E f \in PollutantFields : isMissingValue(st[f]))

\* C9 as amended: hasMissingData is true iff one of the seven fields AQI, O3, NO2,
\* PM10, PM2.5, SO2, CO is missing.
C9_SevenFields ==
    missing # <<>> =>
        (missing[1] <=> \E f \in PollutantFields \cup {"AQI"} : isMissingValue(st[f]))

\* C9 witness: the AQI alone is missing and hasMissingData returned true
C9_Witness ==
    /\ missing = <<TRUE>>
    /\ isMissingValue(st.AQI)
    /\ \A f \in PollutantFields : ~isMissingValue(st[f])

\* C10: the decoder returns the same result each time it is given the same body.
C10_DecodeDeterministic ==
    \A a, b \in 1..Len(decoded) : decoded[a] = decoded[b]

Decodable(b) ==
    \/ b.kind \in {"array", "null"}
    \/ /\ b.kind = "object"
       /\ \E k \in DOMAIN b.members : b.members[k].kind \in {"array", "null"}

\* C12 as claimed: a fetch whose response has any 2xx status and a body that
\* decodes is a success.
C12_Any2xxIsSuccess ==
    fetched # <<>> =>
        ((exchange.net = "ok" /\ exchange.status \in 200..299 /\ Decodable(exchange.body))
            => fetched[1].err = NoError)

\* C12 as amended: a fetch succeeds exactly when the response has status 200 and a
\* body that can be read and decodes; with any other status, 2xx included, it
\* fails with the status error and returns no list.
C12_OnlyStatus200IsSuccess ==
    fetched # <<>> =>
        /\ fetched[1].err = NoError <=>
              (exchange.net = "ok" /\ exchange.status = 200 /\ Decodable(exchange.body))
        /\ (exchange.net # "fail" /\ exchange.status # 200) =>
              /\ fetched[1].err = Err("http", exchange.status)
              /\ fetched[1].arr = <<>>

\* C12 witness: status 201 with a body that is a station array, and the status
\* error returned
C12_Witness ==
    /\ fetched # <<>>
    /\ exchange.net = "ok"
    /\ exchange.status = 201
    /\ exchange.body.kind = "array"
    /\ Len(exchange.body.arr) = 2
    /\ fetched[1].err = Err("http", 201)

\* the seven fields in the order of the factor list, each with its name in it
FactorOrder ==
    << <<"AQI", "AQI">>, <<"PM25", "PM2.5">>, <<"PM10", "PM10">>, <<"O3", "O3">>,
       <<"NO2", "NO2">>, <<"SO2", "SO2">>, <<"CO", "CO">> >>

\* the names, in that order, of the fields of s that isMissingValue finds missing
MissingNames(s) ==
    LET IsMissing(p) == isMissingValue(s[p[1]])
        sel == SelectSeq(FactorOrder, IsMissing)
    IN  [k \in 1..Len(sel) |-> sel[k][2]]

\* C13: getMissingFactors returns the names of the fields among AQI, PM2.5, PM10,
\* O3, NO2, SO2, CO that isMissingValue finds missing, each once, in that order;
\* the list is non-empty exactly when hasMissingData is true; and for a station
\* with missing data (as every station of the problem list is) the rendered
\* factor text is not the none token.
C13_MissingFactors ==
    /\ factors # <<>> =>
          /\ factors[1] = MissingNames(st)
          /\ \A a, b \in 1..Len(factors[1]) : factors[1][a] = factors[1][b] => a = b
          /\ factors[1] # <<>> <=> hasMissingData(st)
    /\ (factors # <<>> /\ missing # <<>>) => (factors[1] # <<>> <=> missing[1])
    /\ (text # <<>> /\ missing = <<TRUE>>) => text[1] # NoneToken
    /\ (text # <<>> /\ missing = <<FALSE>>) => text[1] = NoneToken

\* C13 witness: the AQI and CO are missing, both are listed in that order and the
\* text rendered is the list, not the none token
C13_Witness ==
    /\ missing = <<TRUE>>
    /\ factors = << <<"AQI", "CO">> >>
    /\ text = << <<"AQI", "CO">> >>

\* C14: the loop stops at the first attempt that succeeds: a successful attempt is
\* the last one, only the failed attempts before it were followed by a sleep, the
\* list main holds and selects from is the one that attempt returned, and the
\* run is not fatal whatever errors the earlier attempts returned.
C14_StopsAtFirstSuccess ==
    /\ \A k \in 1..Len(attempts) :
          attempts[k] = NoError =>
              /\ k = Len(attempts)
              /\ Len(sleeps) = k - 1
              /\ pc \notin {"fetch", "sleep"}
    /\ (Len(attempts) > 0 /\ attempts[Len(attempts)] = NoError) =>
          /\ data = returned[Len(returned)]
          /\ exit # "fatal"
          /\ pc = "done" => exit = "ok"
          /\ Selected => problemStations = selectProblemStations(returned[Len(returned)])

\* C14 witness: two failed attempts, each followed by its sleep, then a successful
\* one whose list was selected from, and the run ended as a success
C14_Witness ==
    /\ pc = "done"
    /\ exit = "ok"
    /\ Len(attempts) = 3
    /\ attempts[1].kind = "transport"
    /\ attempts[2].kind = "decode"
    /\ attempts[3] = NoError
    /\ sleeps = <<500, 1000>>
    /\ Len(returned[3]) = 2
    /\ Len(problemStations) = 2

====
